---- MODULE Spec2Model ----
(***************************************************************************)
(* Model of the ingestion consistency engine of WeeklyChatbotV1            *)
(* (src/rag/ingest_lib.py): the chunks table and the meta table of         *)
(* chunks.sqlite, the persisted FAISS index file, and the operations       *)
(* append_events, rebuild_events and _rebuild_faiss_from_sqlite.           *)
(*                                                                         *)
(* One operation runs at a time.  Every action ends at a durable write (a  *)
(* sqlite commit or faiss.write_index) or at a return, so that the states  *)
(* between two actions are exactly the states a process kill can leave on  *)
(* disk.                                                                   *)
(***************************************************************************)
EXTENDS Integers, Sequences, FiniteSets, TLC

VARIABLES
    chunks,      \* rows of table chunks: a set of [id, text, f, hash]
    faiss_file,  \* index.faiss: [exists, d, vecs]
    meta,        \* table meta: [emb_model, emb_dim]
    pc,          \* position of the running operation; "done" once it has
                 \* returned to its caller, "idle" when no call is at hand
    args,        \* arguments of the call
    loc,         \* local variables of the call
    ret,         \* what the call returned
    prev,        \* history: the summary of the call before, when this call repeats its batch
    crashed,     \* history: "no" while no operation was killed part-way, "last"
                 \* when the latest operation was, "before" when an earlier one was
    now,         \* int(dt.datetime.now().timestamp()): the clock, in seconds
    uploads,     \* rows of table uploads: a set of [id, mode, status, added, total, log]
    bg,          \* the background tasks added by do_ingest, in order
    clock,       \* time.time(), in ticks of 1/TicksPerSec second
    held,        \* the token that make_token returned last
    auth         \* the latest admin request: [token, issued, at, status]

vars == <<chunks, faiss_file, meta, pc, args, loc, ret, prev, crashed,
          now, uploads, bg, clock, held, auth>>

\* the state of the web application around the engine
api == <<now, uploads, bg, clock, held, auth>>

\* the state of the admin tokens
tokens == <<clock, held, auth>>

\* the state of the engine and of its Store
engine == <<chunks, faiss_file, meta, pc, args, loc, ret, prev, crashed>>

----------------------------------------------------------------------------
(* Bounds and input universe *)

MaxBatch == 2

\* Python's None
NULL == "NULL"

EvA == [title |-> "A"]
EvB == [title |-> "B", raw |-> "b"]
Events == {EvA, EvB}

Batches == UNION {[1..n -> Events] : n \in 0..MaxBatch}

\* embedding model ids; two of them share a dimension
Models == {"MiniLM-L6", "MiniLM-L3", "mpnet"}

get_sentence_embedding_dimension(m) == IF m = "mpnet" THEN 768 ELSE 384

\* a provider whose vectors have another dimension than the one it declares
Skewed == "skewed"

\* embs.shape[1]: the dimension of the vectors that model.encode returns
shape1(m) == IF m = Skewed THEN 768 ELSE get_sentence_embedding_dimension(m)

\* model.encode: the vector of a text is a function of the provider and the text
Embed(m, txt) == [model |-> m, dim |-> shape1(m), text |-> txt]

encode(m, texts) == [i \in 1..Len(texts) |-> Embed(m, texts[i])]

\* str(dim)
str(n) == ToString(n)

----------------------------------------------------------------------------
(* Canonicaliser *)

\* dict.get
Get(ev, k) == IF k \in DOMAIN ev THEN ev[k] ELSE NULL

\* only None counts as absent
Truthy_notnull(v) == v # NULL

\* Python truthiness of an optional string
Truthy(v) == v # NULL /\ v # ""

FieldOrder == <<"date", "dow", "start", "end", "location", "participants", "title">>

\* the text is the sequence of its "k: v" lines
chunk_text_fields(ev) ==
    LET present == SelectSeq(FieldOrder, LAMBDA k : Truthy(Get(ev, k)))
        fields  == [i \in 1..Len(present) |-> <<present[i], Get(ev, present[i])>>]
    IN  IF Truthy(Get(ev, "raw")) THEN Append(fields, <<"raw", ev["raw"]>>) ELSE fields

\* the digest is a function of the text; a collision is not modelled
sha1(s) == <<"sha1", s>>

\* ingest_faiss.py, lines 5-12: the canonicaliser of the command line tool
cli_chunk_text_fields(ev) ==
    LET present == SelectSeq(FieldOrder, LAMBDA k : Truthy(Get(ev, k)))
        fields  == [i \in 1..Len(present) |-> <<present[i], ev[present[i]]>>]
    IN  IF Truthy(Get(ev, "raw")) THEN Append(fields, <<"raw", ev["raw"]>>) ELSE fields

load_events_texts(events) ==
    [i \in 1..Len(events) |->
        [h |-> sha1(chunk_text_fields(events[i])),
         txt |-> chunk_text_fields(events[i]),
         ev |-> events[i]]]

\* the column values written for a record: ev.get(k) for each column
Columns(ev) ==
    [date |-> Get(ev, "date"), dow |-> Get(ev, "dow"), start |-> Get(ev, "start"),
     end |-> Get(ev, "end"), location |-> Get(ev, "location"),
     participants |-> Get(ev, "participants"), title |-> Get(ev, "title"),
     raw |-> Get(ev, "raw")]

----------------------------------------------------------------------------
(* Tables and index *)

\* a plain INSERT that ignores the given id and the hash: the row gets the
\* next free id
InsertOrReplace_rowid(tbl, row) ==
    LET free == CHOOSE i \in 0..Cardinality(tbl) : \A r \in tbl : r.id # i
    IN  tbl \cup {[row EXCEPT !.id = free]}

\* INSERT OR REPLACE with PRIMARY KEY id and UNIQUE hash: the rows that
\* conflict on either are deleted, then the row is inserted
InsertOrReplace(tbl, row) ==
    {r \in tbl : r.id # row.id /\ r.hash # row.hash} \cup {row}

RECURSIVE InsertAll(_, _)
InsertAll(tbl, rows) ==
    IF rows = <<>> THEN tbl
    ELSE InsertAll(InsertOrReplace(tbl, Head(rows)), Tail(rows))

\* SELECT ... FROM chunks ORDER BY id
OrderById(tbl) ==
    LET n == Cardinality(tbl)
    IN  CHOOSE s \in [1..n -> tbl] : \A i, j \in 1..n : i < j => s[i].id < s[j].id

\* faiss.IndexFlatIP(dim)
IndexFlatIP(d) == [exists |-> TRUE, d |-> d, vecs |-> <<>>]

NoFile == [exists |-> FALSE, d |-> 0, vecs |-> <<>>]

ntotal(index) == Len(index.vecs)

\* index.add asserts that the vectors have the index's dimension
CanAdd(index, embs) == \A i \in 1..Len(embs) : embs[i].dim = index.d

add(index, embs) == [index EXCEPT !.vecs = index.vecs \o embs]

----------------------------------------------------------------------------
(* State of a call *)

\* no request has been made
\* no token has been issued
NoToken == [payload_b64 |-> [b64 |-> <<>>], sig |-> [b64 |-> <<>>]]

ApiIdle ==
    /\ now = 0 /\ uploads = {} /\ bg = <<>>
    /\ clock = 0
    /\ held = NoToken
    /\ auth = [token |-> held, issued |-> FALSE, at |-> 0, status |-> 0]

NoArgs == [op |-> "none", events |-> <<>>, local_emb |-> NULL, dedupe |-> TRUE]

NoRet == [kind |-> "none", added |-> 0, total_before |-> 0, total_after |-> 0,
          warning |-> FALSE]

NoPrev == [repeats |-> FALSE, op |-> "none", dedupe |-> TRUE, fresh |-> FALSE,
           added |-> 0, total_after |-> 0]

\* log is history: the durable writes of the call, in order;
\* drift is history: the row count differed from the index total at the call;
\* after_crash is history: the operation before this call was killed part-way
LocInit == [n_old |-> 0, index |-> NoFile, prev_model |-> NULL, prev_dim |-> NULL,
            rows_cnt_before |-> 0, existing |-> {}, new_records |-> <<>>,
            ret_pc |-> "idle", log |-> <<>>, drift |-> FALSE, after_crash |-> FALSE]

\* a freshly created store directory: no index file, empty tables
Init ==
    /\ chunks = {}
    /\ faiss_file = NoFile
    /\ meta = [emb_model |-> NULL, emb_dim |-> NULL]
    /\ pc = "idle"
    /\ args = NoArgs
    /\ loc = LocInit
    /\ ret = NoRet
    /\ prev = NoPrev
    /\ crashed = "no"
    /\ ApiIdle

dim == get_sentence_embedding_dimension(args.local_emb)

Logged(w) == Append(loc.log, w)

Seen(c) == IF c = "last" THEN "before" ELSE c

\* a caller starts an operation
Begin(op, events, m, dedupe) ==
    /\ pc = "idle"
    /\ args' = [op |-> op, events |-> events, local_emb |-> m, dedupe |-> dedupe]
    /\ prev' = NoPrev
    /\ ret' = NoRet

\* the operation returns (or raises) to its caller
Return(summary) ==
    /\ pc' = "done"
    /\ ret' = summary
    /\ UNCHANGED <<args, loc, prev, crashed>>

----------------------------------------------------------------------------
(* _rebuild_faiss_from_sqlite, called from append_events with ret_pc set *)

need_reindex(tbl) ==
    LET rows == OrderById(tbl)
    IN  \E idx \in 1..Len(rows) : rows[idx].id # idx - 1

\* the rows are left with the ids they had
Resequence_keep(tbl) == tbl

\* the new ids are given in descending order of the old ids
Resequence_reversed(tbl) ==
    LET data == OrderById(tbl)
        n    == Len(data)
    IN  InsertAll({}, [i \in 1..n |-> [data[i] EXCEPT !.id = n - i]])

\* lines 56-62: rows rewritten with ids 0..n-1 in the order of their old ids
Resequence(tbl) ==
    LET data == OrderById(tbl)
    IN  InsertAll({}, [i \in 1..Len(data) |-> [data[i] EXCEPT !.id = i - 1]])

\* the texts taken in descending id order
IndexOfRows_unordered(tbl, m) ==
    LET rows == OrderById(tbl)
        n    == Len(rows)
    IN  add(IndexFlatIP(shape1(m)),
            encode(m, [i \in 1..n |-> rows[n + 1 - i].text]))

\* lines 69-73: the index of the embeddings of all texts in id order
IndexOfRows(tbl, m) ==
    LET rows == OrderById(tbl)
    IN  add(IndexFlatIP(shape1(m)),
            encode(m, [i \in 1..Len(rows) |-> rows[i].text]))

\* the vectors are added to those of the file
RepairDone_grown(index) ==
    /\ faiss_file' = [index EXCEPT !.vecs = faiss_file.vecs \o index.vecs]
    /\ loc' = [loc EXCEPT !.n_old = ntotal(index), !.index = index,
                          !.log = Logged("repair_index")]
    /\ pc' = loc.ret_pc

\* lines 34-36, 69-74: the index is written and its total returned
RepairDone(index) ==
    /\ faiss_file' = index
    /\ loc' = [loc EXCEPT !.n_old = ntotal(index), !.index = index,
                          !.log = Logged("repair_index")]
    /\ pc' = loc.ret_pc

\* lines 30-36: no rows, an empty index is written
RepairEmpty ==
    /\ pc = "repair"
    /\ chunks = {}
    /\ RepairDone(IndexFlatIP(dim))
    /\ UNCHANGED <<chunks, meta, args, ret, prev, crashed>>
    /\ UNCHANGED api

\* lines 37-63: ids are not 0..n-1, the rows are resequenced and committed
RepairReindex ==
    /\ pc = "repair"
    /\ chunks # {}
    /\ need_reindex(chunks)
    /\ chunks' = Resequence(chunks)
    /\ loc' = [loc EXCEPT !.log = Logged("repair_rows")]
    /\ pc' = "repair_write"
    /\ UNCHANGED <<faiss_file, meta, args, ret, prev, crashed>>
    /\ UNCHANGED api

\* lines 64-74: all texts are embedded and the index file is rewritten
RepairWrite ==
    /\ \/ pc = "repair_write"
       \/ pc = "repair" /\ chunks # {} /\ ~need_reindex(chunks)
    /\ RepairDone(IndexOfRows(chunks, args.local_emb))
    /\ UNCHANGED <<chunks, meta, args, ret, prev, crashed>>
    /\ UNCHANGED api

CallRepair(ret_pc) ==
    /\ pc' = "repair"
    /\ loc' = [loc EXCEPT !.ret_pc = ret_pc]

----------------------------------------------------------------------------
(* append_events *)

ModelMismatch_never(prev_model, local_emb) == FALSE

\* line 198
ModelMismatch(prev_model, local_emb) == Truthy(prev_model) /\ prev_model # local_emb

\* line 202
DimMismatch(prev_dim, d) == Truthy(prev_dim) /\ prev_dim # str(d)

NewRecords_nodedupe(pending, existing, dedupe) == pending

\* lines 218-222
NewRecords(pending, existing, dedupe) ==
    IF dedupe THEN SelectSeq(pending, LAMBDA r : r.h \notin existing) ELSE pending

\* line 219
ExistingHashes(tbl) == {r.hash : r \in {x \in tbl : Truthy(x.hash)}}

\* lines 248-256
AppendRows(rows_cnt_before, new_records) ==
    [i \in 1..Len(new_records) |->
        [id |-> rows_cnt_before + (i - 1), text |-> new_records[i].txt,
         f |-> Columns(new_records[i].ev), hash |-> new_records[i].h]]

\* lines 173-197: schema ensured, index file and Store Metadata read
Opened ==
    /\ loc' = [LocInit EXCEPT
                 !.index = IF faiss_file.exists THEN faiss_file ELSE IndexFlatIP(dim'),
                 !.n_old = IF faiss_file.exists THEN ntotal(faiss_file) ELSE 0,
                 !.prev_model = meta.emb_model,
                 !.prev_dim = meta.emb_dim,
                 !.drift = (Cardinality(chunks) # ntotal(faiss_file)),
                 !.after_crash = (crashed = "last")]
    /\ pc' = "a_model"
    /\ crashed' = Seen(crashed)
    /\ UNCHANGED <<chunks, faiss_file, meta>>

AppendOpen ==
    /\ pc = "idle"
    /\ \E events \in Batches, m \in Models, dedupe \in BOOLEAN :
           Begin("append", events, m, dedupe)
    /\ Opened
    /\ UNCHANGED api

\* the caller of a call that returned a summary appends the same batch next,
\* with dedupe
AppendRepeat ==
    /\ pc = "done"
    /\ ret.kind = "summary"
    /\ \E m \in Models :
           args' = [op |-> "append", events |-> args.events, local_emb |-> m,
                    dedupe |-> TRUE]
    /\ prev' = [repeats |-> TRUE, op |-> args.op, dedupe |-> args.dedupe,
                fresh |-> (args.op = "append" /\
                           \A i \in 1..Len(args.events) :
                              sha1(chunk_text_fields(args.events[i])) \notin loc.existing),
                added |-> ret.added, total_after |-> ret.total_after]
    /\ ret' = NoRet
    /\ Opened
    /\ UNCHANGED api

\* lines 198-201
AppendCheckModel ==
    /\ pc = "a_model"
    /\ IF ModelMismatch(loc.prev_model, args.local_emb)
       THEN CallRepair("a_dim")
       ELSE pc' = "a_dim" /\ loc' = loc
    /\ UNCHANGED <<chunks, faiss_file, meta, args, ret, prev, crashed>>
    /\ UNCHANGED api

\* lines 202-204
AppendCheckDim ==
    /\ pc = "a_dim"
    /\ IF DimMismatch(loc.prev_dim, dim)
       THEN CallRepair("a_sanity")
       ELSE pc' = "a_sanity" /\ loc' = loc
    /\ UNCHANGED <<chunks, faiss_file, meta, args, ret, prev, crashed>>
    /\ UNCHANGED api

\* lines 207-211
AppendSanity ==
    /\ pc = "a_sanity"
    /\ IF Cardinality(chunks) # loc.n_old
       THEN CallRepair("a_dedupe")
       ELSE pc' = "a_dedupe" /\ loc' = loc
    /\ UNCHANGED <<chunks, faiss_file, meta, args, ret, prev, crashed>>
    /\ UNCHANGED api

\* lines 208, 212-222: the row count is taken, the batch is materialised and filtered
AppendDedupe ==
    /\ pc = "a_dedupe"
    /\ LET new_records == NewRecords(load_events_texts(args.events),
                                     ExistingHashes(chunks), args.dedupe)
       IN  /\ loc' = [loc EXCEPT !.rows_cnt_before = Cardinality(chunks),
                                 !.existing = ExistingHashes(chunks),
                                 !.new_records = new_records]
           /\ pc' = IF new_records = <<>> THEN "a_noop_meta" ELSE "a_encode"
    /\ UNCHANGED <<chunks, faiss_file, meta, args, ret, prev, crashed>>
    /\ UNCHANGED api

\* the model id is not written
AppendNoopMeta_skip ==
    /\ pc = "a_noop_meta"
    /\ loc' = [loc EXCEPT !.log = Logged("meta")]
    /\ pc' = "a_noop_return"
    /\ UNCHANGED <<chunks, faiss_file, meta, args, ret, prev, crashed>>
    /\ UNCHANGED api

\* line 225
AppendNoopMeta ==
    /\ pc = "a_noop_meta"
    /\ meta' = [meta EXCEPT !.emb_model = args.local_emb]
    /\ loc' = [loc EXCEPT !.log = Logged("meta")]
    /\ pc' = "a_noop_return"
    /\ UNCHANGED <<chunks, faiss_file, args, ret, prev, crashed>>
    /\ UNCHANGED api

\* lines 226-234
AppendNoopReturn ==
    /\ pc = "a_noop_return"
    /\ meta' = [meta EXCEPT !.emb_dim = str(dim)]
    /\ Return([kind |-> "summary", added |-> 0,
               total_before |-> loc.rows_cnt_before,
               total_after |-> loc.rows_cnt_before, warning |-> FALSE])
    /\ UNCHANGED <<chunks, faiss_file>>
    /\ UNCHANGED api

\* line 240: the vectors do not have the declared dimension
ShapeMismatch == shape1(args.local_emb) # dim

\* the vectors of the new records are at hand, with or without the retry of
\* lines 241-243 behind
AtAdd == (pc = "a_encode" /\ ~ShapeMismatch) \/ pc = "a_add"

\* lines 236-246: the new texts are embedded, added to the index in memory and
\* the index is persisted
AppendEncode ==
    /\ AtAdd
    /\ LET embs == encode(args.local_emb, [i \in 1..Len(loc.new_records) |->
                                             loc.new_records[i].txt])
       IN  /\ CanAdd(loc.index, embs)
           /\ faiss_file' = add(loc.index, embs)
           /\ loc' = [loc EXCEPT !.index = add(loc.index, embs),
                                 !.log = Logged("index")]
    /\ pc' = "a_insert"
    /\ UNCHANGED <<chunks, meta, args, ret, prev, crashed>>
    /\ UNCHANGED api

\* lines 240-243: the vectors have another dimension than declared; the index
\* is rebuilt from the rows and read again before the add
AppendEncodeMismatch ==
    /\ pc = "a_encode"
    /\ ShapeMismatch
    /\ CallRepair("a_add")
    /\ UNCHANGED <<chunks, faiss_file, meta, args, ret, prev, crashed>>
    /\ UNCHANGED api

\* line 245: index.add raises when the index has another dimension
AppendAddRaises ==
    /\ AtAdd
    /\ ~CanAdd(loc.index, encode(args.local_emb,
                  [i \in 1..Len(loc.new_records) |-> loc.new_records[i].txt]))
    /\ Return([NoRet EXCEPT !.kind = "error"])
    /\ UNCHANGED <<chunks, faiss_file, meta>>
    /\ UNCHANGED api

\* lines 248-262
AppendInsert ==
    /\ pc = "a_insert"
    /\ chunks' = InsertAll(chunks, AppendRows(loc.rows_cnt_before, loc.new_records))
    /\ loc' = [loc EXCEPT !.log = Logged("rows")]
    /\ pc' = "a_meta"
    /\ UNCHANGED <<faiss_file, meta, args, ret, prev, crashed>>
    /\ UNCHANGED api

\* line 264
AppendMeta ==
    /\ pc = "a_meta"
    /\ meta' = [meta EXCEPT !.emb_model = args.local_emb]
    /\ loc' = [loc EXCEPT !.log = Logged("meta")]
    /\ pc' = "a_return"
    /\ UNCHANGED <<chunks, faiss_file, args, ret, prev, crashed>>
    /\ UNCHANGED api

\* the summary never carries a warning
AppendReturn_nowarn ==
    /\ pc = "a_return"
    /\ meta' = [meta EXCEPT !.emb_dim = str(dim)]
    /\ Return([kind |-> "summary", added |-> Len(loc.new_records),
               total_before |-> loc.rows_cnt_before,
               total_after |-> Cardinality(chunks),
               warning |-> FALSE])
    /\ UNCHANGED <<chunks, faiss_file>>
    /\ UNCHANGED api

\* lines 265-282
AppendReturn ==
    /\ pc = "a_return"
    /\ meta' = [meta EXCEPT !.emb_dim = str(dim)]
    /\ Return([kind |-> "summary", added |-> Len(loc.new_records),
               total_before |-> loc.rows_cnt_before,
               total_after |-> Cardinality(chunks),
               warning |-> (Cardinality(chunks) # ntotal(loc.index))])
    /\ UNCHANGED <<chunks, faiss_file>>
    /\ UNCHANGED api

----------------------------------------------------------------------------
(* rebuild_events *)

\* lines 329-336: the first record of every hash, in input order
RECURSIVE FirstOfEachHash(_, _)
FirstOfEachHash(pending, seen) ==
    IF pending = <<>> THEN <<>>
    ELSE IF Head(pending).h \in seen
         THEN FirstOfEachHash(Tail(pending), seen)
         ELSE <<Head(pending)>> \o FirstOfEachHash(Tail(pending), seen \cup {Head(pending).h})

\* the raw line is left out
materialize_text_noraw(ev) ==
    LET present == SelectSeq(FieldOrder, LAMBDA k : Truthy(Get(ev, k)))
    IN  [i \in 1..Len(present) |-> <<present[i], Get(ev, present[i])>>]

\* lines 319-325: the canonicaliser local to rebuild_events
materialize_text(ev) ==
    LET present == SelectSeq(FieldOrder, LAMBDA k : Truthy(Get(ev, k)))
        parts   == [i \in 1..Len(present) |-> <<present[i], Get(ev, present[i])>>]
    IN  IF Truthy(Get(ev, "raw")) THEN Append(parts, <<"raw", ev["raw"]>>) ELSE parts

\* lines 330-331, 338-340: (hash, text, record) of each record of the batch
materialize_records(events) ==
    [i \in 1..Len(events) |->
        [h |-> sha1(materialize_text(events[i])),
         txt |-> materialize_text(events[i]),
         ev |-> events[i]]]

\* lines 327-341
RebuildRecords(events, dedupe) ==
    IF dedupe THEN FirstOfEachHash(materialize_records(events), {})
    ELSE materialize_records(events)

\* lines 357-362
RebuildRows(records) ==
    [i \in 1..Len(records) |->
        [id |-> i - 1, text |-> records[i].txt,
         f |-> Columns(records[i].ev), hash |-> records[i].h]]

\* lines 296-316: tables created if missing, all rows deleted and committed
RebuildOpen ==
    /\ pc = "idle"
    /\ \E events \in Batches, m \in Models, dedupe \in BOOLEAN :
           Begin("rebuild", events, m, dedupe)
    /\ chunks' = {}
    /\ loc' = [LocInit EXCEPT !.log = <<"rows_deleted">>,
                               !.after_crash = (crashed = "last")]
    /\ pc' = "b_index"
    /\ crashed' = Seen(crashed)
    /\ UNCHANGED <<faiss_file, meta>>
    /\ UNCHANGED api

\* lines 319-354: records materialised, a new index filled and persisted
RebuildWriteIndex ==
    /\ pc = "b_index"
    /\ LET records == RebuildRecords(args.events, args.dedupe)
           index   == add(IndexFlatIP(dim),
                          encode(args.local_emb,
                                 [i \in 1..Len(records) |-> records[i].txt]))
       IN  /\ faiss_file' = index
           /\ loc' = [loc EXCEPT !.new_records = records, !.index = index,
                                 !.log = Logged("index")]
    /\ pc' = "b_insert"
    /\ UNCHANGED <<chunks, meta, args, ret, prev, crashed>>
    /\ UNCHANGED api

\* lines 356-363
RebuildInsert ==
    /\ pc = "b_insert"
    /\ chunks' = InsertAll(chunks, RebuildRows(loc.new_records))
    /\ loc' = [loc EXCEPT !.log = Logged("rows")]
    /\ pc' = "b_return"
    /\ UNCHANGED <<faiss_file, meta, args, ret, prev, crashed>>
    /\ UNCHANGED api

\* lines 365-389: both meta keys committed together, summary returned
RebuildReturn ==
    /\ pc = "b_return"
    /\ meta' = [emb_model |-> args.local_emb, emb_dim |-> str(dim)]
    /\ Return([kind |-> "summary", added |-> Len(loc.new_records),
               total_before |-> 0,
               total_after |-> Cardinality(chunks),
               warning |-> (Cardinality(chunks) # ntotal(loc.index))])
    /\ UNCHANGED <<chunks, faiss_file>>
    /\ UNCHANGED api

----------------------------------------------------------------------------
(* Callers and process kills *)

\* the caller has taken the result; the store is ready for any next call
Finish ==
    /\ pc = "done"
    /\ pc' = "idle"
    /\ args' = NoArgs
    /\ loc' = LocInit
    /\ ret' = NoRet
    /\ prev' = NoPrev
    /\ UNCHANGED <<chunks, faiss_file, meta, crashed>>
    /\ UNCHANGED api

\* the process is killed between two writes of the running operation
Crash ==
    /\ pc \notin {"idle", "done"}
    /\ pc' = "idle"
    /\ args' = NoArgs
    /\ loc' = LocInit
    /\ ret' = NoRet
    /\ prev' = NoPrev
    /\ crashed' = "last"
    /\ UNCHANGED <<chunks, faiss_file, meta>>
    /\ UNCHANGED api

Next ==
    \/ AppendOpen
    \/ AppendRepeat
    \/ AppendCheckModel
    \/ AppendCheckDim
    \/ AppendSanity
    \/ AppendDedupe
    \/ AppendNoopMeta
    \/ AppendNoopReturn
    \/ AppendEncode
    \/ AppendAddRaises
    \/ AppendInsert
    \/ AppendMeta
    \/ AppendReturn
    \/ RepairEmpty
    \/ RepairReindex
    \/ RepairWrite
    \/ RebuildOpen
    \/ RebuildWriteIndex
    \/ RebuildInsert
    \/ RebuildReturn
    \/ Finish
    \/ Crash

Spec == Init /\ [][Next]_vars

\* a record as its caller builds it: field assignments in some order
MaxFields == 2

FieldNames == {"date", "title", "raw"}

FieldValues == {NULL, "", "x"}

Assignments == UNION {[1..n -> FieldNames \X FieldValues] : n \in 0..MaxFields}

\* the dict that a sequence of assignments leaves: a key holds the value set last
dict(items) ==
    LET Last(k) == CHOOSE i \in 1..Len(items) :
                      /\ items[i][1] = k
                      /\ \A j \in (i + 1)..Len(items) : items[j][1] # k
    IN  [k \in {items[i][1] : i \in 1..Len(items)} |-> items[Last(k)][2]]

\* two records are at hand
InitCanon ==
    /\ chunks = {}
    /\ faiss_file = NoFile
    /\ meta = [emb_model |-> NULL, emb_dim |-> NULL]
    /\ pc = "canon"
    /\ args \in [a : Assignments, b : Assignments]
    /\ loc = LocInit
    /\ ret = NoRet
    /\ prev = NoPrev
    /\ crashed = "no"
    /\ ApiIdle

\* lines 156-160: the text and the hash of each record
Canonicalise ==
    /\ pc = "canon"
    /\ ret' = [txt_a |-> chunk_text_fields(dict(args.a)),
               h_a   |-> sha1(chunk_text_fields(dict(args.a))),
               txt_b |-> chunk_text_fields(dict(args.b)),
               h_b   |-> sha1(chunk_text_fields(dict(args.b)))]
    /\ pc' = "canon_done"
    /\ UNCHANGED <<chunks, faiss_file, meta, args, loc, prev, crashed>>
    /\ UNCHANGED api

NextCanon == Canonicalise

SpecCanon == InitCanon /\ [][NextCanon]_vars

\* local_emb of the ingest task: the default of append_events and rebuild_events
DefaultModel == "MiniLM-L6"

\* the ingest task that is not on the processor: its position, arguments,
\* locals and result
Parked == [pc |-> "idle", args |-> NoArgs, loc |-> LocInit, ret |-> NoRet]

\* two ingest tasks have been queued by do_ingest; pc, args, loc and ret are
\* those of the task on the processor, prev holds the other task
InitTasks ==
    /\ chunks = {}
    /\ faiss_file = NoFile
    /\ meta = [emb_model |-> NULL, emb_dim |-> NULL]
    /\ pc = "idle"
    /\ args = NoArgs
    /\ loc = LocInit
    /\ ret = NoRet
    /\ prev = Parked
    /\ crashed = "no"
    /\ ApiIdle

\* _ingest_task with mode append: append_events(events, STORE_DIR, dedupe=dedupe)
TaskAppend ==
    /\ pc = "idle"
    /\ \E events \in Batches, dedupe \in BOOLEAN :
           args' = [op |-> "append", events |-> events,
                    local_emb |-> DefaultModel, dedupe |-> dedupe]
    /\ ret' = NoRet
    /\ prev' = prev
    /\ Opened
    /\ UNCHANGED api

\* _ingest_task with mode rebuild: rebuild_events(events, STORE_DIR)
TaskRebuild ==
    /\ pc = "idle"
    /\ \E events \in Batches :
           args' = [op |-> "rebuild", events |-> events,
                    local_emb |-> DefaultModel, dedupe |-> TRUE]
    /\ ret' = NoRet
    /\ chunks' = {}
    /\ loc' = [LocInit EXCEPT !.log = <<"rows_deleted">>]
    /\ pc' = "b_index"
    /\ UNCHANGED <<faiss_file, meta, prev, crashed>>
    /\ UNCHANGED api

\* the thread pool runs each task on its own thread and nothing in do_ingest
\* or _ingest_task holds a lock: the other task gets the processor
Switch ==
    /\ prev.pc # "done"
    /\ pc' = prev.pc
    /\ args' = prev.args
    /\ loc' = prev.loc
    /\ ret' = prev.ret
    /\ prev' = [pc |-> pc, args |-> args, loc |-> loc, ret |-> ret]
    /\ UNCHANGED <<chunks, faiss_file, meta, crashed>>
    /\ UNCHANGED api

NextTasks ==
    \/ TaskAppend
    \/ TaskRebuild
    \/ Switch
    \/ AppendCheckModel
    \/ AppendCheckDim
    \/ AppendSanity
    \/ AppendDedupe
    \/ AppendNoopMeta
    \/ AppendNoopReturn
    \/ AppendEncode
    \/ AppendInsert
    \/ AppendMeta
    \/ AppendReturn
    \/ RepairEmpty
    \/ RepairReindex
    \/ RepairWrite
    \/ RebuildWriteIndex
    \/ RebuildInsert
    \/ RebuildReturn

SpecTasks == InitTasks /\ [][NextTasks]_vars

\* the rows a Store can hold before an insert: ids with or without gaps
StoredRows ==
    {[id |-> i, text |-> chunk_text_fields(ev), f |-> Columns(ev),
      hash |-> sha1(chunk_text_fields(ev))] : i \in 0..(MaxBatch + 1), ev \in Events}

Tables ==
    {t \in SUBSET StoredRows :
        \A r1, r2 \in t : r1 # r2 => (r1.id # r2.id /\ r1.hash # r2.hash)}

\* an append or a rebuild has persisted its index and is about to insert its rows
InitInsert ==
    \E tbl \in Tables, events \in Batches, dedupe \in BOOLEAN, op \in {"append", "rebuild"} :
        LET stored  == IF op = "append" THEN tbl ELSE {}
            records == IF op = "append"
                       THEN NewRecords(load_events_texts(events), ExistingHashes(stored), dedupe)
                       ELSE RebuildRecords(events, dedupe)
            old     == IF op = "append" THEN IndexOfRows(stored, DefaultModel)
                       ELSE IndexFlatIP(get_sentence_embedding_dimension(DefaultModel))
            index   == add(old, encode(DefaultModel,
                                       [i \in 1..Len(records) |-> records[i].txt]))
        IN  /\ chunks = stored
            /\ faiss_file = index
            /\ meta = [emb_model |-> NULL, emb_dim |-> NULL]
            /\ pc = IF op = "append" THEN "a_insert" ELSE "b_insert"
            /\ args = [op |-> op, events |-> events, local_emb |-> DefaultModel,
                       dedupe |-> dedupe]
            /\ loc = [LocInit EXCEPT !.n_old = ntotal(old), !.index = index,
                                     !.rows_cnt_before = Cardinality(stored),
                                     !.existing = ExistingHashes(stored),
                                     !.new_records = records,
                                     !.log = <<"index">>]
            /\ ret = NoRet
            /\ prev = NoPrev
            /\ crashed = "no"
            /\ ApiIdle

\* lines 248-262, 356-363 run once more with the same ids: the ingestion is retried
RetryInsert ==
    /\ pc \in {"a_meta", "b_return"}
    /\ chunks' = InsertAll(chunks, IF args.op = "append"
                                   THEN AppendRows(loc.rows_cnt_before, loc.new_records)
                                   ELSE RebuildRows(loc.new_records))
    /\ pc' = "retried"
    /\ UNCHANGED <<faiss_file, meta, args, loc, ret, prev, crashed>>
    /\ UNCHANGED api

NextInsert ==
    \/ AppendInsert
    \/ RebuildInsert
    \/ RetryInsert

SpecInsert == InitInsert /\ [][NextInsert]_vars

----------------------------------------------------------------------------
(* ingest_faiss.py: the command line tool, run against the same Store *)

\* int(prev_dim)
int(v) == CHOOSE n \in {get_sentence_embedding_dimension(m) : m \in Models} : str(n) = v

\* the append branch is never taken
CliAppends_never == FALSE

\* line 76: --append was given and the index file exists
CliAppends == args.op = "cli_append" /\ faiss_file.exists

\* the stored identity is not compared
CliIdentityMismatch_never == FALSE

\* lines 82-85
CliIdentityMismatch ==
    \/ Truthy(meta.emb_model) /\ meta.emb_model # args.local_emb
    \/ Truthy(meta.emb_dim) /\ int(meta.emb_dim) # dim

\* lines 88-93
CliCountMismatch == Cardinality(chunks) # ntotal(faiss_file)

\* lines 58-74: the events are loaded (a run without events exits at once),
\* the tables are created if missing, the provider is loaded
CliOpen ==
    /\ pc = "idle"
    /\ \E events \in Batches \ {<<>>}, m \in Models,
          op \in {"cli_append", "cli_rebuild"}, no_dedupe \in BOOLEAN :
           Begin(op, events, m, ~no_dedupe)
    /\ loc' = [LocInit EXCEPT !.after_crash = (crashed = "last")]
    /\ pc' = "c_check"
    /\ crashed' = Seen(crashed)
    /\ UNCHANGED <<chunks, faiss_file, meta>>
    /\ UNCHANGED api

\* lines 76-93: --append against a store of another identity or with
\* unequal counts exits with an error
CliCheckExit ==
    /\ pc = "c_check"
    /\ CliAppends
    /\ CliIdentityMismatch \/ CliCountMismatch
    /\ Return([NoRet EXCEPT !.kind = "error"])
    /\ UNCHANGED <<chunks, faiss_file, meta>>
    /\ UNCHANGED api

\* lines 76-93: the checks pass, the index is the one of the file
CliCheckPass ==
    /\ pc = "c_check"
    /\ CliAppends
    /\ ~CliIdentityMismatch /\ ~CliCountMismatch
    /\ loc' = [loc EXCEPT !.index = faiss_file, !.n_old = ntotal(faiss_file)]
    /\ pc' = "c_meta"
    /\ UNCHANGED <<chunks, faiss_file, meta, args, ret, prev, crashed>>
    /\ UNCHANGED api

\* lines 94-100: a new index, and all rows deleted and committed
CliClear ==
    /\ pc = "c_check"
    /\ ~CliAppends
    /\ chunks' = {}
    /\ loc' = [loc EXCEPT !.index = IndexFlatIP(dim), !.n_old = 0,
                          !.log = Logged("rows_deleted")]
    /\ pc' = "c_meta"
    /\ UNCHANGED <<faiss_file, meta, args, ret, prev, crashed>>
    /\ UNCHANGED api

\* line 103
CliSetModel ==
    /\ pc = "c_meta"
    /\ meta' = [meta EXCEPT !.emb_model = args.local_emb]
    /\ loc' = [loc EXCEPT !.log = Logged("meta")]
    /\ pc' = "c_meta_dim"
    /\ UNCHANGED <<chunks, faiss_file, args, ret, prev, crashed>>
    /\ UNCHANGED api

\* line 104
CliSetDim ==
    /\ pc = "c_meta_dim"
    /\ meta' = [meta EXCEPT !.emb_dim = str(dim)]
    /\ loc' = [loc EXCEPT !.log = Logged("meta")]
    /\ pc' = "c_dedupe"
    /\ UNCHANGED <<chunks, faiss_file, args, ret, prev, crashed>>
    /\ UNCHANGED api

\* lines 117-119: (hash, text, record) of each record
cli_records(events) ==
    [i \in 1..Len(events) |->
        [h |-> sha1(cli_chunk_text_fields(events[i])),
         txt |-> cli_chunk_text_fields(events[i]),
         ev |-> events[i]]]

\* lines 106-129: the first record of each hash, less the stored hashes
\* unless --no-dedupe
CliNewRecords(events, tbl, dedupe) ==
    FirstOfEachHash(cli_records(events),
                    IF dedupe THEN {r.hash : r \in tbl} ELSE {})

\* lines 131-136: nothing new, the run ends
CliNothingNew ==
    /\ pc = "c_dedupe"
    /\ CliNewRecords(args.events, chunks, args.dedupe) = <<>>
    /\ Return([kind |-> "summary", added |-> 0,
               total_before |-> loc.n_old, total_after |-> loc.n_old,
               warning |-> FALSE])
    /\ UNCHANGED <<chunks, faiss_file, meta>>
    /\ UNCHANGED api

\* lines 138-149: the new texts are embedded and added, the index is persisted
CliWriteIndex ==
    /\ pc = "c_dedupe"
    /\ LET new_records == CliNewRecords(args.events, chunks, args.dedupe)
           embs == encode(args.local_emb,
                          [i \in 1..Len(new_records) |-> new_records[i].txt])
       IN  /\ new_records # <<>>
           /\ CanAdd(loc.index, embs)
           /\ faiss_file' = add(loc.index, embs)
           /\ loc' = [loc EXCEPT !.index = add(loc.index, embs),
                                 !.new_records = new_records,
                                 !.existing = {r.hash : r \in chunks},
                                 !.rows_cnt_before = loc.n_old,
                                 !.log = Logged("index")]
    /\ pc' = "c_insert"
    /\ UNCHANGED <<chunks, meta, args, ret, prev, crashed>>
    /\ UNCHANGED api

\* lines 153-161: ids from n_old on
CliRows(n_old, new_records) ==
    [i \in 1..Len(new_records) |->
        [id |-> n_old + (i - 1), text |-> new_records[i].txt,
         f |-> Columns(new_records[i].ev), hash |-> new_records[i].h]]

\* a plain INSERT fails on a stored id or hash
Conflicts(tbl, rows) ==
    \E i \in 1..Len(rows) : \E r \in tbl : r.id = rows[i].id \/ r.hash = rows[i].hash

\* lines 163-166
CliInsert ==
    /\ pc = "c_insert"
    /\ ~Conflicts(chunks, CliRows(loc.n_old, loc.new_records))
    /\ chunks' = chunks \cup {CliRows(loc.n_old, loc.new_records)[i] :
                                 i \in 1..Len(loc.new_records)}
    /\ loc' = [loc EXCEPT !.log = Logged("rows")]
    /\ pc' = "c_verify"
    /\ UNCHANGED <<faiss_file, meta, args, ret, prev, crashed>>
    /\ UNCHANGED api

\* lines 163-166: the INSERT raises, nothing is committed
CliInsertRaises ==
    /\ pc = "c_insert"
    /\ Conflicts(chunks, CliRows(loc.n_old, loc.new_records))
    /\ Return([NoRet EXCEPT !.kind = "error"])
    /\ UNCHANGED <<chunks, faiss_file, meta>>
    /\ UNCHANGED api

\* lines 168-179
CliVerify ==
    /\ pc = "c_verify"
    /\ Return(IF Cardinality(chunks) # ntotal(loc.index)
              THEN [NoRet EXCEPT !.kind = "error"]
              ELSE [kind |-> "summary", added |-> Len(loc.new_records),
                    total_before |-> loc.n_old,
                    total_after |-> loc.n_old + Len(loc.new_records),
                    warning |-> FALSE])
    /\ UNCHANGED <<chunks, faiss_file, meta>>
    /\ UNCHANGED api

NextCli ==
    \/ CliOpen
    \/ CliCheckExit
    \/ CliCheckPass
    \/ CliClear
    \/ CliSetModel
    \/ CliSetDim
    \/ CliNothingNew
    \/ CliWriteIndex
    \/ CliInsert
    \/ CliInsertRaises
    \/ CliVerify
    \/ Finish
    \/ Crash

SpecCli == Init /\ [][NextCli]_vars

----------------------------------------------------------------------------
(* backend/api/admin_auth.py: the admin tokens *)

TicksPerSec == 2
MaxTime == 5
MaxExpSec == 1

\* lines 7-8
SECRET == "dev-secret-change-me"
ADMIN_USER == "admin"

Users == {ADMIN_USER, "guest"}

\* int(time.time())
int_time == clock \div TicksPerSec

\* lines 25-31: _b64url and _b64url_decode
b64url(data) == [b64 |-> data]
b64url_decode(s) == s.b64

\* lines 33-35: the digest is a function of the secret and the payload
hmac_new(key, payload) == <<"hmac", key, payload>>
sign(payload) == b64url(hmac_new(SECRET, payload))

\* line 46: the two parts on either side of the "."
Token(payload_b64, sig) == [payload_b64 |-> payload_b64, sig |-> sig]

\* lines 37-46: the payload is "user|exp"
make_token(user, exp_sec) ==
    LET exp     == int_time + exp_sec
        payload == <<user, exp>>
    IN  Token(b64url(payload), sign(payload))

\* no token is expired
Expired_never(exp) == FALSE

\* line 58
Expired(exp) == exp < int_time

\* lines 48-63: the user of the token, or 401
verify_token(token) ==
    LET payload == b64url_decode(token.payload_b64)
    IN  IF sign(payload) # token.sig THEN [status |-> 401, user |-> ""]
        ELSE IF Len(payload) # 2 THEN [status |-> 401, user |-> ""]
        ELSE IF Expired(payload[2]) THEN [status |-> 401, user |-> ""]
        ELSE [status |-> 200, user |-> payload[1]]

\* lines 65-71
require_admin(token) ==
    LET v == verify_token(token)
    IN  IF v.status = 401 THEN 401
        ELSE IF v.user # ADMIN_USER THEN 403
        ELSE 200

\* the payloads a client can send: "user|exp", or a text without "|"
Payloads ==
    {<<u, e>> : u \in Users, e \in 0..(MaxTime \div TicksPerSec + MaxExpSec)}
        \cup {<<"garbage">>}

\* the tokens a client can send: any payload with the signature of any
\* payload, made with the secret or with another key
Presented ==
    {Token(b64url(p), b64url(hmac_new(k, q))) :
        p \in Payloads, q \in Payloads, k \in {SECRET, "guess"}}

\* time passes
AuthTick ==
    /\ clock < MaxTime
    /\ clock' = clock + 1
    /\ UNCHANGED <<held, auth>>
    /\ UNCHANGED <<now, uploads, bg>>
    /\ UNCHANGED engine

\* admin_api.py lines 23-27: the login of the admin user returns a token
Login ==
    /\ \E exp_sec \in 0..MaxExpSec : held' = make_token(ADMIN_USER, exp_sec)
    /\ UNCHANGED <<clock, auth>>
    /\ UNCHANGED <<now, uploads, bg>>
    /\ UNCHANGED engine

\* lines 65-71: a request to an admin route with the token issued last
AdminRequestHeld ==
    /\ held # NoToken
    /\ auth' = [token |-> held, issued |-> TRUE, at |-> clock,
                status |-> require_admin(held)]
    /\ UNCHANGED <<clock, held>>
    /\ UNCHANGED <<now, uploads, bg>>
    /\ UNCHANGED engine

\* lines 65-71: a request to an admin route with any other token
AdminRequest ==
    /\ \E token \in Presented :
          auth' = [token |-> token, issued |-> FALSE, at |-> clock,
                   status |-> require_admin(token)]
    /\ UNCHANGED <<clock, held>>
    /\ UNCHANGED <<now, uploads, bg>>
    /\ UNCHANGED engine

NextAuth ==
    \/ AuthTick
    \/ Login
    \/ AdminRequestHeld
    \/ AdminRequest

SpecAuth == Init /\ [][NextAuth]_vars

\* a Store as a completed run of the tool with provider m leaves it: the
\* rows of the records, ids from 0, and one vector per row
CliStart(events, m) ==
    LET tbl == {CliRows(0, cli_records(events))[i] : i \in 1..Len(events)}
    IN  /\ chunks = tbl
        /\ faiss_file = IF events = <<>> THEN NoFile ELSE IndexOfRows(tbl, m)
        /\ meta = IF events = <<>> THEN [emb_model |-> NULL, emb_dim |-> NULL]
                  ELSE [emb_model |-> m,
                        emb_dim |-> str(get_sentence_embedding_dimension(m))]
        /\ pc = "idle"
        /\ args = NoArgs
        /\ loc = LocInit
        /\ ret = NoRet
        /\ prev = NoPrev
        /\ crashed = "no"
        /\ ApiIdle

\* one run of the tool on such a Store
InitCliRun ==
    \E events \in Batches, m \in Models :
        /\ \A i, j \in 1..Len(events) : events[i] = events[j] => i = j
        /\ CliStart(events, m)

NextCliRun ==
    \/ CliOpen
    \/ CliCheckExit
    \/ CliCheckPass
    \/ CliClear
    \/ CliSetModel
    \/ CliSetDim
    \/ CliNothingNew
    \/ CliWriteIndex
    \/ CliInsert
    \/ CliInsertRaises
    \/ CliVerify

SpecCliRun == InitCliRun /\ [][NextCliRun]_vars

\* the library and the command line tool used in turn on one Store; no run
\* is killed
NextStore ==
    \/ AppendOpen
    \/ AppendCheckModel
    \/ AppendCheckDim
    \/ AppendSanity
    \/ AppendDedupe
    \/ AppendNoopMeta
    \/ AppendNoopReturn
    \/ AppendEncode
    \/ AppendInsert
    \/ AppendMeta
    \/ AppendReturn
    \/ RepairEmpty
    \/ RepairReindex
    \/ RepairWrite
    \/ RebuildOpen
    \/ RebuildWriteIndex
    \/ RebuildInsert
    \/ RebuildReturn
    \/ CliOpen
    \/ CliCheckExit
    \/ CliCheckPass
    \/ CliClear
    \/ CliSetModel
    \/ CliSetDim
    \/ CliNothingNew
    \/ CliWriteIndex
    \/ CliInsert
    \/ CliInsertRaises
    \/ CliVerify
    \/ Finish

SpecStore == Init /\ [][NextStore]_vars

----------------------------------------------------------------------------
(* backend/api/admin_api.py: the ingest endpoint, its background task and
   the uploads table *)

MaxClock == 1

MaxTasks == 2

\* an optional value: none, or the value v
None == <<>>

Some(v) == <<v>>

\* COALESCE(?, column)
COALESCE(v, old) == IF v # None THEN v ELSE old

\* lines 121-140: the row of the id is updated if there is one, inserted if not
log_upload(tbl, task_id, mode, status, added, total, log) ==
    IF \E r \in tbl : r.id = task_id
    THEN {IF r.id = task_id
          THEN [r EXCEPT !.status = status,
                         !.added = COALESCE(added, r.added),
                         !.total = COALESCE(total, r.total),
                         !.log = COALESCE(log, r.log)]
          ELSE r : r \in tbl}
    ELSE tbl \cup {[id |-> task_id, mode |-> mode, status |-> status,
                    added |-> added, total |-> total, log |-> log]}

\* the task has not called the engine
NoCall == [op |-> "none", dedupe |-> TRUE]

\* a second passes
Tick ==
    /\ now < MaxClock
    /\ now' = now + 1
    /\ UNCHANGED <<uploads, bg>>
    /\ UNCHANGED engine
    /\ UNCHANGED tokens

\* lines 58-84: the request is valid; the id is the clock, the record is
\* logged as queued and the task is added
do_ingest ==
    /\ Len(bg) < MaxTasks
    /\ \E mode \in {"append", "rebuild"}, dedupe \in BOOLEAN :
          LET task_id == now
          IN  /\ uploads' = log_upload(uploads, task_id, mode, "queued", None, None, None)
              /\ bg' = Append(bg, [task_id |-> task_id, mode |-> mode,
                                   dedupe |-> dedupe, state |-> "queued",
                                   call |-> NoCall])
    /\ now' = now
    /\ UNCHANGED engine
    /\ UNCHANGED tokens

\* lines 86-103: the file is parsed and the engine is called;
\* rebuild_events takes its default dedupe (ingest_lib.py line 287)
IngestCall ==
    /\ \E i \in 1..Len(bg) :
          /\ bg[i].state = "queued"
          /\ bg' = [bg EXCEPT ![i].state = "running",
                              ![i].call = IF bg[i].mode = "rebuild"
                                          THEN [op |-> "rebuild", dedupe |-> TRUE]
                                          ELSE [op |-> "append", dedupe |-> bg[i].dedupe]]
    /\ UNCHANGED <<now, uploads>>
    /\ UNCHANGED engine
    /\ UNCHANGED tokens

\* lines 105-114: the engine has returned a summary
IngestDone ==
    /\ \E i \in 1..Len(bg), added \in 0..1 :
          /\ bg[i].state = "running"
          /\ uploads' = log_upload(uploads, bg[i].task_id, NULL, "done",
                                   Some(added), Some(added), Some("res"))
          /\ bg' = [bg EXCEPT ![i].state = "finished"]
    /\ now' = now
    /\ UNCHANGED engine
    /\ UNCHANGED tokens

\* lines 115-119: the parser or the engine has raised
IngestFailed ==
    /\ \E i \in 1..Len(bg) :
          /\ bg[i].state \in {"queued", "running"}
          /\ uploads' = log_upload(uploads, bg[i].task_id, NULL, "failed",
                                   None, None, Some("err"))
          /\ bg' = [bg EXCEPT ![i].state = "finished"]
    /\ now' = now
    /\ UNCHANGED engine
    /\ UNCHANGED tokens

NextUploads ==
    \/ Tick
    \/ do_ingest
    \/ IngestCall
    \/ IngestDone
    \/ IngestFailed

SpecUploads == Init /\ [][NextUploads]_vars

----------------------------------------------------------------------------
(* append_events against a Store of an older schema *)

\* the hash column's NULL and '' (a hash is a tuple here, see sha1)
HashNull == <<"NULL">>
HashBlank == <<"">>

\* the rows of an older Store: ids 0..n-1, any of the texts, also twice
OldRows(n) == [0..(n - 1) -> Events]

\* a table without the hash column
TableNoHash(evs) ==
    {[id |-> i, text |-> chunk_text_fields(evs[i]), f |-> Columns(evs[i])] :
        i \in DOMAIN evs}

\* a table with the hash column and its unique index, whose hashes are
\* missing, empty or set
TableOldHash(evs, hs) ==
    {[id |-> i, text |-> chunk_text_fields(evs[i]), f |-> Columns(evs[i]),
      hash |-> CASE hs[i] = "set" -> sha1(chunk_text_fields(evs[i]))
                [] hs[i] = "null" -> HashNull
                [] OTHER -> HashBlank] :
        i \in DOMAIN evs}

UniqueHashes(tbl) ==
    \A r1, r2 \in tbl :
        (r1 # r2 /\ r1.hash # HashNull /\ r2.hash # HashNull) => r1.hash # r2.hash

\* an older Store whose index holds one vector per row, and an append about
\* to begin
SchemaStart(tbl, events, dedupe) ==
    /\ chunks = tbl
    /\ faiss_file = IndexOfRows(tbl, DefaultModel)
    /\ meta = [emb_model |-> DefaultModel,
               emb_dim |-> str(get_sentence_embedding_dimension(DefaultModel))]
    /\ pc = "s_schema"
    /\ args = [op |-> "append", events |-> events, local_emb |-> DefaultModel,
               dedupe |-> dedupe]
    /\ loc = LocInit
    /\ ret = NoRet
    /\ prev = NoPrev
    /\ crashed = "no"
    /\ ApiIdle

InitSchema ==
    \E n \in 0..MaxBatch, events \in Batches, dedupe \in BOOLEAN :
        \E evs \in OldRows(n) :
            \/ SchemaStart(TableNoHash(evs), events, dedupe)
            \/ \E hs \in [0..(n - 1) -> {"null", "blank", "set"}] :
                  /\ UniqueHashes(TableOldHash(evs, hs))
                  /\ SchemaStart(TableOldHash(evs, hs), events, dedupe)

\* lines 85-118: the hash column is added if missing (its values are NULL),
\* the unique index is created if missing
EnsureSchema ==
    /\ pc = "s_schema"
    /\ chunks' = {IF "hash" \in DOMAIN r THEN r
                  ELSE [id |-> r.id, text |-> r.text, f |-> r.f, hash |-> HashNull] :
                    r \in chunks}
    /\ pc' = "s_backfill"
    /\ UNCHANGED <<faiss_file, meta, args, loc, ret, prev, crashed>>
    /\ UNCHANGED api

\* line 17: the rows whose hash is NULL or empty
NeedHash(tbl) == {r \in tbl : r.hash = HashNull \/ r.hash = HashBlank}

\* lines 21-23: an UPDATE meets the unique index when another row has, or
\* has just got, the same hash
BackfillConflict(tbl) ==
    \E r \in NeedHash(tbl) : \E q \in tbl \ {r} :
        \/ q \in NeedHash(tbl) /\ sha1(q.text) = sha1(r.text)
        \/ q \notin NeedHash(tbl) /\ q.hash = sha1(r.text)

\* lines 14-25: every row without a hash gets the hash of its text
BackfillHashes ==
    /\ pc = "s_backfill"
    /\ ~BackfillConflict(chunks)
    /\ chunks' = {IF r \in NeedHash(chunks) THEN [r EXCEPT !.hash = sha1(r.text)]
                  ELSE r : r \in chunks}
    /\ pc' = "s_open"
    /\ UNCHANGED <<faiss_file, meta, args, loc, ret, prev, crashed>>
    /\ UNCHANGED api

\* lines 21-23: the UPDATE raises, nothing of the backfill is committed and
\* append_events raises
BackfillRaises ==
    /\ pc = "s_backfill"
    /\ BackfillConflict(chunks)
    /\ Return([NoRet EXCEPT !.kind = "error"])
    /\ UNCHANGED <<chunks, faiss_file, meta>>
    /\ UNCHANGED api

\* lines 182-197: the call goes on as on any Store
SchemaOpened ==
    /\ pc = "s_open"
    /\ Opened
    /\ UNCHANGED <<args, ret, prev>>
    /\ UNCHANGED api

NextSchema ==
    \/ EnsureSchema
    \/ BackfillHashes
    \/ BackfillRaises
    \/ SchemaOpened
    \/ AppendCheckModel
    \/ AppendCheckDim
    \/ AppendSanity
    \/ AppendDedupe
    \/ AppendNoopMeta
    \/ AppendNoopReturn
    \/ AppendEncode
    \/ AppendInsert
    \/ AppendMeta
    \/ AppendReturn

SpecSchema == InitSchema /\ [][NextSchema]_vars

\* the providers of the appends below: one whose vectors have the declared
\* dimension and one whose vectors do not
Providers == {"MiniLM-L6", Skewed}

AppendOpenAny ==
    /\ pc = "idle"
    /\ \E events \in Batches, m \in Providers, dedupe \in BOOLEAN :
           Begin("append", events, m, dedupe)
    /\ Opened
    /\ UNCHANGED api

\* appends only, with either provider
NextDim ==
    \/ AppendOpenAny
    \/ AppendCheckModel
    \/ AppendCheckDim
    \/ AppendSanity
    \/ AppendDedupe
    \/ AppendNoopMeta
    \/ AppendNoopReturn
    \/ AppendEncode
    \/ AppendEncodeMismatch
    \/ AppendAddRaises
    \/ AppendInsert
    \/ AppendMeta
    \/ AppendReturn
    \/ RepairEmpty
    \/ RepairReindex
    \/ RepairWrite
    \/ Finish

SpecDim == Init /\ [][NextDim]_vars

----------------------------------------------------------------------------
(* Properties *)

Rows == Cardinality(chunks)

Total == ntotal(faiss_file)

Returned == pc = "done" /\ ret.kind = "summary"

Ids == {r.id : r \in chunks}

BatchHashes(events) == {sha1(chunk_text_fields(events[i])) : i \in 1..Len(events)}

\* the call at hand found a stored model id or dimension other than its own
StoredIdentityDiffers ==
    \/ loc.prev_model \notin {NULL, "", args.local_emb}
    \/ loc.prev_dim \notin {NULL, "", str(dim)}

FirstWriteIsRepair ==
    loc.log # <<>> /\ Head(loc.log) \in {"repair_rows", "repair_index"}

\* the vector at the position of every row is what provider m makes of its text
VectorsOf(m) ==
    \A r \in chunks :
        /\ r.id \in 0..(Total - 1)
        /\ faiss_file.vecs[r.id + 1] = Embed(m, r.text)

Consistent ==
    /\ Rows = Total
    /\ Ids = 0..(Rows - 1)
    /\ VectorsOf(meta.emb_model)

\* C1: after every append_events / rebuild_events call that returns a summary,
\* the number of rows of chunks equals the number of vectors of the persisted
\* index.
C1_RowsEqualVectors == Returned => Rows = Total

\* C2: between operations, whenever the row count equals the index total,
\* every row's id is a position of the index and the vector there is the
\* embedding of the row's text; when no operation was ever killed part-way it
\* is the embedding made by the provider recorded in Store Metadata.
C2_VectorAtIdIsRowText ==
    (pc \in {"idle", "done"} /\ Rows = Total) =>
        \A r \in chunks :
            /\ r.id \in 0..(Total - 1)
            /\ faiss_file.vecs[r.id + 1].text = r.text
            /\ crashed = "no" => faiss_file.vecs[r.id + 1] = Embed(meta.emb_model, r.text)

\* an append onto a stored row returned, after a repair, with two rows and two vectors
C2_Witness ==
    /\ Returned /\ crashed = "no" /\ args.op = "append"
    /\ "repair_index" \in {loc.log[i] : i \in 1..Len(loc.log)}
    /\ ret.total_before = 1 /\ ret.added = 1
    /\ Rows = 2 /\ Total = 2

\* C3: an append with dedupe returns added = the number of distinct hashes of
\* the batch that were not stored (so [A, A] onto an empty Store returns
\* added = 1, total_after = 1), and total_after = total_before + added.
C3_AddedIsDistinctNewHashes ==
    (Returned /\ args.op = "append" /\ args.dedupe) =>
        /\ ret.added = Cardinality(BatchHashes(args.events) \ loc.existing)
        /\ ret.total_after = ret.total_before + ret.added

\* C4 as stated: the same batch of N records appended twice in a row with
\* dedupe returns added = N, then added = 0, with the same total_after.
C4_Original ==
    (Returned /\ prev.repeats /\ prev.op = "append" /\ prev.dedupe) =>
        /\ prev.added = Len(args.events)
        /\ ret.added = 0
        /\ ret.total_after = prev.total_after

\* C4, amended: when no hash of the batch was stored before the first call,
\* the same batch of N records appended twice in a row with dedupe returns
\* added = N, then added = 0, with the same total_after; whatever was stored,
\* the second call returns added = 0 and the first call's total_after.
C4_RepeatedAppendAddsNothing ==
    (Returned /\ prev.repeats /\ prev.op = "append" /\ prev.dedupe) =>
        /\ prev.fresh => prev.added = Len(args.events)
        /\ ret.added = 0
        /\ ret.total_after = prev.total_after

\* a batch of two records, none stored, was appended twice
C4_Witness ==
    /\ Returned /\ prev.repeats /\ prev.op = "append" /\ prev.dedupe /\ prev.fresh
    /\ Len(args.events) = 2
    /\ prev.added = 2

\* C5: rebuild returns total_after = the number of distinct hashes of the
\* records with dedupe, and = len(records) without.
C5_RebuildTotalAfter ==
    (Returned /\ args.op = "rebuild") =>
        ret.total_after = IF args.dedupe THEN Cardinality(BatchHashes(args.events))
                          ELSE Len(args.events)

\* C6: whenever rebuild returns a summary the row count equals the index
\* total and the ids are 0..n-1.
C6_RebuildLeavesConsistent ==
    (Returned /\ args.op = "rebuild") => (Rows = Total /\ Ids = 0..(Rows - 1))

\* C7: an append that finds the row count different from the index total
\* writes the repaired index before anything else, returns with the row count
\* equal to the index total, and reports total_before = the repaired count.
C7_AppendHealsDrift ==
    (Returned /\ args.op = "append" /\ loc.drift) =>
        /\ FirstWriteIsRepair
        /\ Rows = Total
        /\ ret.total_before = loc.n_old

\* C8: an append that finds a stored model id or dimension other than its
\* own has rewritten the whole index from the rows with its own provider
\* before it embeds the new records, and when it returns every vector of the
\* index is one made by its own provider.
C8_IdentityChangeReembeds ==
    (args.op = "append" /\ StoredIdentityDiffers) =>
        /\ pc = "a_encode" =>
               /\ FirstWriteIsRepair
               /\ faiss_file = IndexOfRows(chunks, args.local_emb)
               /\ loc.index = faiss_file
        /\ Returned =>
               /\ FirstWriteIsRepair
               /\ \A i \in 1..Total : faiss_file.vecs[i].model = args.local_emb

\* an append with another model added a record to a store that held one
C8_Witness ==
    /\ Returned /\ args.op = "append"
    /\ loc.prev_model \notin {NULL, args.local_emb}
    /\ ret.total_before >= 1 /\ ret.added >= 1

\* C9: in every state, also after an append or rebuild was killed part-way,
\* all vectors of the index file were made by one provider.
C9_OneProviderPerIndex ==
    \A i, j \in 1..Total : faiss_file.vecs[i].model = faiss_file.vecs[j].model

\* C10: the first append that returns a summary after an operation was killed
\* part-way leaves the Store Consistent.
C10_AppendAfterCrashIsConsistent ==
    (Returned /\ args.op = "append" /\ loc.after_crash) => Consistent

InLog(w) == \E i \in 1..Len(loc.log) : loc.log[i] = w

Running == pc \notin {"idle", "done"}

Hashes == {r.hash : r \in chunks}

\* C12: while an append or rebuild is running, the index file never holds the
\* vectors of the call's new records while the committed rows lack one of
\* those records: a reader of the pair sees the state of before the call or
\* the state of after it.
C12_NoHalfWrittenPair ==
    (Running /\ InLog("index")) =>
        \A i \in 1..Len(loc.new_records) : loc.new_records[i].h \in Hashes

\* C13: the row insert of an append without dedupe keeps every stored row,
\* leaves the ids 0..n-1, and inserts one row per distinct hash of the batch.
C13_NoDedupeCollapsesBatch ==
    [][(pc = "a_insert" /\ pc' = "a_meta" /\ ~args.dedupe) =>
          /\ chunks \subseteq chunks'
          /\ {r.id : r \in chunks'} = 0..(Cardinality(chunks') - 1)
          /\ Len(loc.new_records) = Cardinality(BatchHashes(args.events))]_vars

\* C14: after every append or rebuild that returns a summary the ids of the
\* rows are exactly 0..row_count-1.
C14_IdsDenseAfterCall == Returned => Ids = 0..(Rows - 1)

\* C15: once an append has committed its rows it returns a summary and never
\* raises, the vectors it added and the rows it inserted are all still there,
\* and the summary carries a warning exactly when the row count differs from
\* the total of the persisted index.
C15_WarningIffCountsDiffer ==
    (pc = "done" /\ args.op = "append" /\ InLog("rows")) =>
        /\ ret.kind = "summary"
        /\ ret.warning <=> (Rows # Total)
        /\ Total = ret.total_before + ret.added
        /\ \A i \in 1..Len(loc.new_records) : loc.new_records[i].h \in Hashes

\* an append returned a warning with fewer rows than vectors
C15_Witness ==
    /\ Returned /\ args.op = "append" /\ InLog("rows")
    /\ ret.warning /\ Rows < Total

\* C16: an append in which no record survives dedupe writes neither the index
\* file nor rows after its checks, leaves the model id and the dimension of
\* its provider in Store Metadata, and returns added = 0 with total_after =
\* total_before.
C16_NothingNewStillWritesMeta ==
    (Returned /\ args.op = "append" /\ loc.new_records = <<>>) =>
        /\ ~InLog("index") /\ ~InLog("rows")
        /\ Rows = ret.total_before /\ Total = loc.n_old
        /\ meta = [emb_model |-> args.local_emb, emb_dim |-> str(dim)]
        /\ ret.added = 0 /\ ret.total_after = ret.total_before

\* an empty append returned on a store that had neither index file nor metadata
C16_Witness ==
    /\ Returned /\ args.op = "append" /\ loc.new_records = <<>>
    /\ loc.prev_model = NULL /\ ~faiss_file.exists
    /\ meta.emb_model = args.local_emb

\* the provider of a running append has returned vectors of another dimension
\* than declared
AfterShapeMismatch ==
    /\ args.op = "append" /\ ShapeMismatch
    /\ \/ pc = "a_encode"
       \/ pc \in {"repair", "repair_write"} /\ loc.ret_pc = "a_add"
       \/ pc \in {"a_add", "a_insert", "a_meta", "a_return"}

\* C17: once the provider of an append has returned vectors whose dimension
\* is not the declared one, no step of the call writes the index file, the
\* rows or Store Metadata, and the call ends with an error.
C17_WrongDimensionAborts ==
    [][AfterShapeMismatch =>
          /\ UNCHANGED <<chunks, faiss_file, meta>>
          /\ pc' = "done" => ret'.kind = "error"]_vars

\* the fields of a record that hold a non-empty value, with their values
PresentFields(ev) ==
    [k \in {x \in DOMAIN ev : ev[x] # NULL /\ ev[x] # ""} |-> ev[k]]

\* the place of a key in date, dow, start, end, location, participants, title, raw
LinePlace(k) ==
    IF k = "raw" THEN Len(FieldOrder) + 1
    ELSE CHOOSE i \in 1..Len(FieldOrder) : FieldOrder[i] = k

\* the text has one line per present field, in the fixed order
CanonicalOf(ev, txt) ==
    /\ {txt[i] : i \in 1..Len(txt)} =
          {<<k, PresentFields(ev)[k]>> : k \in DOMAIN PresentFields(ev)}
    /\ \A i, j \in 1..Len(txt) : i < j => LinePlace(txt[i][1]) < LinePlace(txt[j][1])

\* C20: two records with the same present field values, however they were
\* built and whether their other fields are missing, null or empty, have the
\* same canonical text and the same hash, and the text has one line per
\* present field in the order date, dow, start, end, location, participants,
\* title, raw.
C20_CanonDependsOnPresentFields ==
    pc = "canon_done" =>
        /\ CanonicalOf(dict(args.a), ret.txt_a)
        /\ CanonicalOf(dict(args.b), ret.txt_b)
        /\ PresentFields(dict(args.a)) = PresentFields(dict(args.b)) =>
              (ret.txt_a = ret.txt_b /\ ret.h_a = ret.h_b)

\* two records whose two fields were set in opposite orders have been
\* canonicalised to the same two lines
C20_Witness ==
    /\ pc = "canon_done"
    /\ Len(args.a) = 2 /\ Len(args.b) = 2
    /\ args.a[1][1] # args.a[2][1]
    /\ args.a[1] = args.b[2] /\ args.a[2] = args.b[1]
    /\ Len(ret.txt_a) = 2 /\ ret.txt_a = ret.txt_b /\ ret.h_a = ret.h_b

\* a record with an empty field and a record without that field have been
\* canonicalised to the same line
C20_WitnessEmpty ==
    /\ pc = "canon_done"
    /\ Len(args.a) = 2 /\ Len(args.b) = 1
    /\ args.a[1] = args.b[1] /\ args.a[2][2] = ""
    /\ Len(ret.txt_a) = 1 /\ ret.txt_a = ret.txt_b

\* C11: two ingest tasks never overlap: while one task is between its first
\* read and its return, the other has not started or has returned.
C11_TasksSerialised == ~(Running /\ prev.pc \notin {"idle", "done"})

\* the last write of the call at hand is the index write of the repair
RepairReturned == Running /\ loc.log # <<>> /\ loc.log[Len(loc.log)] = "repair_index"

\* C18: when the repair has returned, the index file holds one vector per
\* row, at the position of the row's id and made of its text, the ids are
\* 0..n-1, and the number returned is the row count.
C18_RepairLeavesConsistent ==
    RepairReturned =>
        /\ faiss_file.exists
        /\ Rows = Total
        /\ Ids = 0..(Rows - 1)
        /\ loc.n_old = Rows
        /\ \A r \in chunks : faiss_file.vecs[r.id + 1].text = r.text

\* a repair returned after resequencing two rows
C18_Witness == RepairReturned /\ InLog("repair_rows") /\ Rows = 2

\* C19: the resequencing step of the repair keeps every row's hash, text and
\* columns, keeps the rows in the order of their old ids, keeps the id of
\* every row of the dense prefix, and neither adds nor drops a row.
C19_ResequenceKeepsRows ==
    [][(pc = "repair" /\ pc' = "repair_write") =>
          LET NewRow(r) == CHOOSE x \in chunks' : x.hash = r.hash
          IN  /\ Cardinality(chunks') = Cardinality(chunks)
              /\ \A r \in chunks :
                    /\ \E x \in chunks' : x.hash = r.hash
                    /\ NewRow(r).text = r.text /\ NewRow(r).f = r.f
                    /\ (\A k \in 0..r.id : k \in Ids) => NewRow(r).id = r.id
              /\ \A r1, r2 \in chunks :
                    r1.id < r2.id => NewRow(r1).id < NewRow(r2).id]_vars

\* two rows have been resequenced
C19_Witness == pc = "repair_write" /\ InLog("repair_rows") /\ Rows = 2

\* C21: an append of the batch of the rebuild that has just returned, with
\* dedupe, returns added = 0; and the canonicalisers of append_events, of
\* rebuild_events and of the command line tool give every record the same
\* text and the same hash.
C21_CanonicalisersAgree ==
    (Returned /\ args.op = "append" /\ prev.repeats /\ prev.op = "rebuild") =>
        /\ ret.added = 0
        /\ \A items \in Assignments :
              /\ materialize_text(dict(items)) = chunk_text_fields(dict(items))
              /\ cli_chunk_text_fields(dict(items)) = chunk_text_fields(dict(items))
              /\ sha1(materialize_text(dict(items))) = sha1(chunk_text_fields(dict(items)))
              /\ sha1(cli_chunk_text_fields(dict(items))) = sha1(chunk_text_fields(dict(items)))

\* the batch of a rebuild that stored a record with a raw field has been
\* appended right after it
C21_Witness ==
    /\ Returned /\ args.op = "append" /\ prev.repeats /\ prev.op = "rebuild"
    /\ \E i \in 1..Len(args.events) : args.events[i] = EvB
    /\ ret.added = 0 /\ Rows > 0

\* C22: when a rebuild has returned, the rows are the surviving records of
\* its batch with ids 0..n-1 in batch order, the index holds exactly their
\* vectors in that order, Store Metadata names the call's provider, and the
\* summary has total_before = 0: the contents are a function of the call's
\* arguments alone and nothing of the prior state remains.
C22_RebuildDiscardsPrior ==
    (Returned /\ args.op = "rebuild") =>
        LET recs == RebuildRecords(args.events, args.dedupe)
        IN  /\ chunks = {[id |-> i - 1, text |-> recs[i].txt,
                          f |-> Columns(recs[i].ev), hash |-> recs[i].h] :
                            i \in 1..Len(recs)}
            /\ Rows = Len(recs)
            /\ faiss_file = add(IndexFlatIP(dim),
                                encode(args.local_emb,
                                       [i \in 1..Len(recs) |-> recs[i].txt]))
            /\ meta = [emb_model |-> args.local_emb, emb_dim |-> str(dim)]
            /\ ret.total_before = 0

\* C23: when an append has returned, its k-th surviving record (k from 0, in
\* batch order) is the row with id total_before + k, and the vector at index
\* position total_before + k is the vector of that record's text.
C23_AppendIdsFollowRowCount ==
    (Returned /\ args.op = "append") =>
        \A k \in 0..(Len(loc.new_records) - 1) :
            /\ \E r \in chunks :
                  /\ r.id = ret.total_before + k
                  /\ r.hash = loc.new_records[k + 1].h
                  /\ r.text = loc.new_records[k + 1].txt
            /\ ret.total_before + k + 1 <= Total
            /\ faiss_file.vecs[ret.total_before + k + 1] =
                  Embed(args.local_emb, loc.new_records[k + 1].txt)

\* C24: inserting the rows of an append or a rebuild a second time, with the
\* same ids, leaves the chunks table as the first insertion left it.
C24_InsertTwiceIsInsertOnce ==
    [][pc' = "retried" =>
          (chunks' = chunks /\ Cardinality(chunks') = Cardinality(chunks))]_vars

\* two rows have been inserted twice after a stored row
C24_Witness ==
    /\ pc = "retried" /\ args.op = "append"
    /\ Len(loc.new_records) = 2 /\ loc.rows_cnt_before = 1

\* C25: no step of an append, of the library or of the command line tool
\* with --append, removes a content hash from the chunks table.
C25_AppendKeepsHashes ==
    [][(Running /\ args.op \in {"append", "cli_append"})
          => Hashes \subseteq {r.hash : r \in chunks'}]_vars

\* a run of the command line tool with --append has added a row to a Store
\* that held rows
C25_Witness ==
    /\ Returned /\ args.op = "cli_append"
    /\ ret.added > 0 /\ ret.total_before > 0
    /\ loc.existing \subseteq Hashes

\* the Store names another model id or another dimension than the run at
\* hand, or holds unequal counts
CliStoreDiffers ==
    \/ meta.emb_model \notin {NULL, "", args.local_emb}
    \/ meta.emb_dim \notin {NULL, "", str(dim)}
    \/ Rows # Total

\* the step ends the run with an error and writes nothing
ExitsUntouched ==
    /\ pc' = "done" => ret'.kind = "error"
    /\ pc' \in {"done", "idle"}
    /\ UNCHANGED <<chunks, faiss_file, meta>>

\* C30 as stated: a run of the command line tool with --append against a
\* Store of another model id or dimension, or with unequal counts, exits
\* with an error at its check and changes neither the index file, nor the
\* rows, nor Store Metadata.
C30_Original ==
    [][(pc = "c_check" /\ args.op = "cli_append" /\ CliStoreDiffers)
          => ExitsUntouched]_vars

\* C30: the same for a Store whose index file exists.
C30_CliAppendMismatchExits ==
    [][(pc = "c_check" /\ args.op = "cli_append" /\ faiss_file.exists
        /\ CliStoreDiffers) => ExitsUntouched]_vars

\* a --append run has exited with an error on a Store whose metadata names
\* the run's model and another dimension
C30_Witness ==
    /\ pc = "done" /\ args.op = "cli_append" /\ ret.kind = "error"
    /\ faiss_file.exists
    /\ meta.emb_model = args.local_emb /\ meta.emb_dim # str(dim)
    /\ loc.log = <<>>

\* C26: once an upload record is done or failed, its status never changes.
C26_FinalStatusStays ==
    [][\A r \in uploads :
          r.status \in {"done", "failed"} =>
              \E r2 \in uploads' : r2.id = r.id /\ r2.status = r.status]_vars

\* C29: the engine call of every ingest task has the dedupe flag of the
\* request, in both modes.
C29_DedupeReachesEngine ==
    \A i \in 1..Len(bg) :
        bg[i].call # NoCall =>
            /\ bg[i].call.op = bg[i].mode
            /\ bg[i].call.dedupe = bg[i].dedupe

\* C27: an append against a Store of an older schema does not fail, and
\* when it has returned every row carries the hash of its own text.
C27_OldSchemaIsMigrated ==
    pc = "done" =>
        /\ ret.kind = "summary"
        /\ \A r \in chunks : r.hash = sha1(r.text)

\* Store Metadata names the provider and the dimension of every vector of
\* the index file
MetaNamesIndexProvider ==
    \A i \in 1..ntotal(faiss_file) :
        /\ meta.emb_model = faiss_file.vecs[i].model
        /\ meta.emb_dim = str(faiss_file.vecs[i].dim)

\* C28: after every append or rebuild that returns a summary, and after
\* every internal repair, Store Metadata emb_model and emb_dim are the
\* identity and the dimension of the provider whose vectors are in the index.
C28_MetaNamesIndexProvider ==
    (Returned \/ RepairReturned) => MetaNamesIndexProvider

\* C31: started on a Consistent Store, every run of the command line tool,
\* whatever its mode and flags and whether it ends in success or in an error
\* exit, leaves the persisted row ids equal to 0..ntotal-1 of the persisted
\* index.
C31_CliRunKeepsIds == pc = "done" => Ids = 0..(Total - 1)

\* C32: every summary returned by append_events has
\* total_after = total_before + added.
C32_SummaryAddsUp ==
    (Returned /\ args.op = "append") =>
        ret.total_after = ret.total_before + ret.added

\* the repair is running and has already run in the call at hand
RepairsAgain == pc \in {"repair", "repair_write"} /\ InLog("repair_index")

\* C33: the repair is idempotent: a second run of _rebuild_faiss_from_sqlite
\* with the same provider leaves the rows, their ids and the index file
\* exactly as after the first run.
C33_RepairIsIdempotent ==
    [][RepairsAgain => (chunks' = chunks /\ faiss_file' = faiss_file)]_vars

\* the repair has run twice in one call on a Store with rows
C33_Witness ==
    /\ chunks # {}
    /\ \E i, j \in 1..Len(loc.log) :
          i < j /\ loc.log[i] = "repair_index" /\ loc.log[j] = "repair_index"

\* C34: two distinct ingest requests never receive the same task id, so
\* every upload record reports exactly one ingestion operation.
C34_TaskIdsDiffer ==
    \A i, j \in 1..Len(bg) : bg[i].task_id = bg[j].task_id => i = j

\* the token of the latest request
AuthPayload == b64url_decode(auth.token.payload_b64)

Accepted == auth.status = 200

\* the token's signature is the one of its payload
SignatureMatches == auth.token.sig = sign(AuthPayload)

\* C35 as stated: a request is accepted only with a token whose signature
\* matches its payload, whose expiry time is not before the time of the
\* request and whose user is the admin user; a token returned by make_token
\* for the admin user is accepted at every time up to its expiry and rejected
\* with 401 at every later time.
C35_Original ==
    /\ Accepted =>
          /\ SignatureMatches
          /\ AuthPayload[1] = ADMIN_USER
          /\ auth.at <= AuthPayload[2] * TicksPerSec
    /\ (auth.issued /\ auth.status # 0) =>
          IF auth.at <= AuthPayload[2] * TicksPerSec
          THEN auth.status = 200
          ELSE auth.status = 401

\* C35: a request is accepted only with a token whose signature matches its
\* payload, whose expiry second is not before the second of the request and
\* whose user is the admin user; a token returned by make_token for the admin
\* user is accepted until the end of its expiry second and rejected with 401
\* from the next second on.
C35_AcceptsUntilExpirySecondEnds ==
    /\ Accepted =>
          /\ SignatureMatches
          /\ AuthPayload[1] = ADMIN_USER
          /\ auth.at \div TicksPerSec <= AuthPayload[2]
    /\ (auth.issued /\ auth.status # 0) =>
          IF auth.at \div TicksPerSec <= AuthPayload[2]
          THEN auth.status = 200
          ELSE auth.status = 401

\* an issued token was presented after its expiry second and rejected
C35_Witness ==
    /\ auth.issued
    /\ auth.status = 401
    /\ Len(AuthPayload) = 2
    /\ auth.at \div TicksPerSec > AuthPayload[2]

====
